---- MODULE Spec2Model ----
(***************************************************************************)
(* Model of publisher/publisher.go of honeyaws: the HoneycombPublisher     *)
(* pipeline (Publish -> parsedCh -> DynSample -> sampledCh ->              *)
(* sendEventsToHoneycomb) and the event enrichers dropNegativeTimes and    *)
(* addTraceData.                                                           *)
(*                                                                         *)
(* Representation.                                                         *)
(*  - A Go string is a sequence of tokens (TLA+ strings); the separators   *)
(*    ";" and "=" are tokens of their own, so strings.Split is computed    *)
(*    on the sequence.  A map key is the concatenation of its tokens.      *)
(*  - An interface{} value is a record [t, n, s, nan]: t is the dynamic    *)
(*    type ("string", "int64", "float64", "bool"), n the number, s the     *)
(*    string.  A float64 is held in thousandths (ToFloat), nan marks NaN.  *)
(*  - ev.Data is a function whose DOMAIN is the set of present keys.       *)
(*  - An event is [id, Timestamp, SampleRate, Data]; Timestamp is in       *)
(*    nanoseconds since the epoch; id is a history tag (object, index)     *)
(*    that the program does not have and never reads.                      *)
(***************************************************************************)
EXTENDS Integers, Sequences, FiniteSets, TLC

VARIABLES
    \* ---- configuration (options.Options) ----
    edgeMode,      \* opt.EdgeMode
    endpointOK,    \* whether opt.GrafanaCloudEndpoint is a URL http.NewRequest accepts
    \* ---- pipeline ----
    objLen,        \* per Publish call: number of events the object's lines parse to
    objErr,        \* per Publish call: whether ParseEvents ends with an error
    fileExists,    \* per Publish call: downloadedObj.Filename exists on disk
    callPc,        \* per Publish call: "received","parsing","cleanup","done","failed"
    ret,           \* per Publish call: value returned ("none" while running)
    nextIdx,       \* per Publish call: index of the next event ParseEvents sends
    removeCalls,   \* per Publish call: number of os.Remove calls made (history)
    parsedBuf,     \* contents of hp.parsedCh's buffer
    sampledBuf,    \* contents of hp.sampledCh's buffer
    samplerPc,     \* DynSample: "recv", "decide", "send"
    samplerEv,     \* DynSample: the event in hand
    sinkPc,        \* sendEventsToHoneycomb: "recv", "process", "post"
    sinkEv,        \* sendEventsToHoneycomb: the loop variable ev
    sinkReq,       \* the request handed to client.Do
    crashed,       \* the process died from an unrecovered panic
    parsedSent,    \* history, per call: sends on parsedCh that completed
    sampRecv,      \* history, per call: events DynSample received
    sampLast,      \* history, per call: index of the last event DynSample received
    sampSent,      \* history: number of sends on sampledCh that completed
    sinkRecv,      \* history: number of events the sink loop received
    posted,        \* history: number of calls of client.Do
    started,       \* history: number of "go" statements run for each stage
    closed,        \* Close() has returned
    \* ---- enricher harness ----
    trail,         \* events: the input, then the event after each call
    ops,           \* the calls applied so far
    panicked       \* a call ended in a runtime panic

pipeVars == <<objLen, objErr, fileExists, callPc, ret, nextIdx, removeCalls,
              parsedBuf, sampledBuf, samplerPc, samplerEv, sinkPc, sinkEv,
              sinkReq, crashed, parsedSent, sampRecv, sampLast, sampSent,
              sinkRecv, posted, endpointOK, started, closed>>
lifeVars == <<started, closed>>
enrichVars == <<trail, ops, panicked>>
vars == <<edgeMode, pipeVars, enrichVars, lifeVars>>

-----------------------------------------------------------------------------
(* Bounds *)

MaxFields == 3      \* at most this many ";"-separated fields in a trace header
MaxCalls == 2       \* enricher calls applied to one event
NumCalls == 2       \* concurrent Publish calls
MaxEvents == 2      \* events per downloaded object

-----------------------------------------------------------------------------
(* Values of type interface{} *)

ToFloat(n) == n * 1000

Str(toks) == [t |-> "string", n |-> 0, s |-> toks, nan |-> FALSE]
I64(n) == [t |-> "int64", n |-> n, s |-> <<>>, nan |-> FALSE]
F64(n) == [t |-> "float64", n |-> n, s |-> <<>>, nan |-> FALSE]
NaN == [t |-> "float64", n |-> 0, s |-> <<>>, nan |-> TRUE]

IsString(d, k) == k \in DOMAIN d /\ d[k].t = "string"

\* m[k] = v on a Go map
Put(d, k, v) == [x \in DOMAIN d \cup {k} |-> IF x = k THEN v ELSE d[x]]
\* delete(m, k)
Delete(d, k) == [x \in DOMAIN d \ {k} |-> d[x]]

Range(seq) == {seq[i] : i \in 1..Len(seq)}

RECURSIVE Concat(_)
Concat(toks) == IF toks = <<>> THEN "" ELSE Head(toks) \o Concat(Tail(toks))

RECURSIVE SplitAcc(_, _, _, _, _)
SplitAcc(s, sep, i, cur, acc) ==
    IF i > Len(s) THEN Append(acc, cur)
    ELSE IF s[i] = sep THEN SplitAcc(s, sep, i + 1, <<>>, Append(acc, cur))
    ELSE SplitAcc(s, sep, i + 1, Append(cur, s[i]), acc)

\* strings.Split(s, sep): Split("", sep) is one empty string
Split(s, sep) == SplitAcc(s, sep, 1, <<>>, <<>>)

-----------------------------------------------------------------------------
(* dropNegativeTimes *)

timeFields == <<"response_processing_time", "request_processing_time",
                "backend_processing_time", "time_taken">>

ErrSuffix == " was -1 -- upstream server timed out, disconnected, or sent malformed response"

tFloatOfFloatOnly(v) == IF v.t = "float64" THEN v.n ELSE 0

\* the switch of lines 131-136: tFloat stays 0 for any other dynamic type;
\* a NaN compares false with everything
tFloatOf(v) ==
    IF v.t = "int64" THEN ToFloat(v.n)
    ELSE IF v.t = "float64" THEN v.n
    ELSE 0

IsNegative(v) == ~v.nan /\ tFloatOf(v) < 0

RECURSIVE dropLoopKeepsFirstError(_, _)
dropLoopKeepsFirstError(data, i) ==
    IF i > Len(timeFields) THEN data
    ELSE LET f == timeFields[i] IN
         IF f \in DOMAIN data /\ IsNegative(data[f])
         THEN dropLoopKeepsFirstError(
                  IF "error" \in DOMAIN data THEN Delete(data, f)
                  ELSE Put(Delete(data, f), "error", Str(<<f, ErrSuffix>>)), i + 1)
         ELSE dropLoopKeepsFirstError(data, i + 1)

RECURSIVE dropLoopStopsAtFirst(_, _)
dropLoopStopsAtFirst(data, i) ==
    IF i > Len(timeFields) THEN data
    ELSE LET f == timeFields[i] IN
         IF f \in DOMAIN data /\ IsNegative(data[f])
         THEN Put(Delete(data, f), "error", Str(<<f, ErrSuffix>>))
         ELSE dropLoopStopsAtFirst(data, i + 1)

\* the loop of lines 128-142
RECURSIVE dropLoop(_, _)
dropLoop(data, i) ==
    IF i > Len(timeFields) THEN data
    ELSE LET f == timeFields[i] IN
         IF f \in DOMAIN data /\ IsNegative(data[f])
         THEN dropLoop(Put(Delete(data, f), "error", Str(<<f, ErrSuffix>>)), i + 1)
         ELSE dropLoop(data, i + 1)

dropNegativeTimes(ev) == [ev EXCEPT !.Data = dropLoop(ev.Data, 1)]

-----------------------------------------------------------------------------
(* addTraceData *)

\* time.Parse(time.RFC3339Nano, s) on the timestamps the model uses:
\* literal -> nanoseconds since the epoch; any other string is a parse error
RFC3339Nanos ==
    ("1970-01-01T00:00:00Z" :> 0) @@
    ("1970-01-01T00:00:00.0015Z" :> 1500000) @@
    ("1970-01-01T00:00:00.002Z" :> 2000000) @@
    ("1970-01-01T00:00:00.0025Z" :> 2500000) @@
    ("1970-01-01T00:00:00.005Z" :> 5000000)

timeParse(toks) ==
    IF Len(toks) = 1 /\ toks[1] \in DOMAIN RFC3339Nanos
    THEN [ok |-> TRUE, ns |-> RFC3339Nanos[toks[1]]]
    ELSE [ok |-> FALSE, ns |-> 0]

\* time.Millisecond, in nanoseconds
Millisecond == 1000000

parentCaseAlwaysNonRoot(st, val, edge) ==
    [data |-> IF edge THEN st.data ELSE Put(st.data, "trace.parent_id", Str(val)),
     rootSpan |-> FALSE]

\* the case "Parent" of the switch, lines 171-177
parentCase(st, val, edge) ==
    IF ~edge
    THEN [data |-> Put(st.data, "trace.parent_id", Str(val)), rootSpan |-> FALSE]
    ELSE st

traceSwitchSelfStaysRoot(st, key, val, edge) ==
    IF key = "Root"
    THEN [st EXCEPT !.data = Put(st.data, "trace.trace_id", Str(val))]
    ELSE IF key = "Self"
    THEN [st EXCEPT !.data = Put(st.data, "trace.span_id", Str(val))]
    ELSE IF key = "Parent"
    THEN parentCase(st, val, edge)
    ELSE IF key = "Sampled"
    THEN [st EXCEPT !.data = Put(st.data, "sampled", Str(val))]
    ELSE [st EXCEPT !.data = Put(st.data, key, Str(val))]

\* the switch on key of lines 165-182
traceSwitch(st, key, val, edge) ==
    IF key = "Root"
    THEN [st EXCEPT !.data = Put(st.data, "trace.trace_id", Str(val))]
    ELSE IF key = "Self"
    THEN [data |-> Put(st.data, "trace.span_id", Str(val)), rootSpan |-> FALSE]
    ELSE IF key = "Parent"
    THEN parentCase(st, val, edge)
    ELSE IF key = "Sampled"
    THEN [st EXCEPT !.data = Put(st.data, "sampled", Str(val))]
    ELSE [st EXCEPT !.data = Put(st.data, key, Str(val))]

\* the loop over the header's fields, lines 157-183
RECURSIVE traceLoop(_, _, _, _)
traceLoop(fields, i, st, edge) ==
    IF i > Len(fields) THEN st
    ELSE LET kv == Split(fields[i], "=") IN
         IF Len(kv) # 2 THEN traceLoop(fields, i + 1, st, edge)
         ELSE traceLoop(fields, i + 1,
                        traceSwitch(st, Concat(kv[1]), kv[2], edge), edge)

\* lines 188-203
withDuration(data, timestamp) ==
    LET endTime == IF IsString(data, "response_time")
                   THEN timeParse(data["response_time"].s)
                   ELSE [ok |-> FALSE, ns |-> 0]
        duration == endTime.ns - timestamp
        fromTimes == IF endTime.ok /\ duration > 0
                     THEN ToFloat(duration \div Millisecond)
                     ELSE 0
        rpt == IF "request_processing_time" \in DOMAIN data
                  /\ data["request_processing_time"].t = "float64"
               THEN data["request_processing_time"]
               ELSE F64(0)
        durationMs == IF fromTimes = 0 THEN rpt ELSE F64(fromTimes)
    IN  IF ~durationMs.nan /\ durationMs.n > 0
        THEN Put(data, "duration_ms", durationMs)
        ELSE data

\* lines 205-214
withNames(data, amznTraceID) ==
    LET d1 == IF IsString(data, "elb")
              THEN Put(data, "service_name", data["elb"]) ELSE data
        d2 == IF IsString(d1, "request_path")
              THEN Put(d1, "name", d1["request_path"]) ELSE d1
    IN  Put(Delete(d2, "trace_id"), "request.headers.x-amzn-trace-id", amznTraceID)

\* addTraceData(ev, edgeMode): the event as the call leaves it, and whether the
\* call panicked.  The type assertion of line 185 has no ", ok" form: it panics
\* when trace.trace_id is absent or not a string, after the loop has already
\* written to ev.Data.
addTraceData(ev, edge) ==
    IF ~IsString(ev.Data, "trace_id") THEN [ev |-> ev, panicked |-> FALSE]
    ELSE LET amznTraceID == ev.Data["trace_id"]
             fields == Split(amznTraceID.s, ";")
             st == traceLoop(fields, 1, [data |-> ev.Data, rootSpan |-> TRUE], edge)
         IN  IF st.rootSpan /\ ~IsString(st.data, "trace.trace_id")
             THEN [ev |-> [ev EXCEPT !.Data = st.data], panicked |-> TRUE]
             ELSE LET d1 == IF st.rootSpan
                            THEN Put(st.data, "trace.span_id", st.data["trace.trace_id"])
                            ELSE st.data
                      d2 == withDuration(d1, ev.Timestamp)
                  IN  [ev |-> [ev EXCEPT !.Data = withNames(d2, amznTraceID)],
                       panicked |-> FALSE]

-----------------------------------------------------------------------------
(* Inputs of the enrichers *)

\* values a latency field may hold after parsing (absent is a missing key)
LatencyValues == {I64(-1), F64(-1), F64(0), F64(21), Str(<<"-1">>), NaN}

\* the fields of a trace header, as the text between two ";"
HeaderFields == {<<"Root", "=", "R1">>, <<"Root", "=", "R2">>,
                 <<"Self", "=", "S1">>, <<"Parent", "=", "P1">>,
                 <<"Sampled", "=", "1">>, <<"-">>,
                 <<"Root", "=", "R1", "=", "x">>,
                 <<"trace.parent_id", "=", "X1">>, <<"trace.span_id", "=", "X1">>,
                 <<"elb", "=", "X1">>}

RECURSIVE JoinFields(_)
JoinFields(fs) ==
    IF Len(fs) = 0 THEN <<>>
    ELSE IF Len(fs) = 1 THEN fs[1]
    ELSE fs[1] \o <<";">> \o JoinFields(Tail(fs))

\* header strings of 1..MaxFields fields
Headers ==
    UNION {{JoinFields(fs) : fs \in [1..n -> HeaderFields]} : n \in 1..MaxFields}

BaseData ==
    ("elb" :> Str(<<"lb1">>)) @@
    ("request" :> Str(<<"GET", " ", "/a", " ", "HTTP/1.1">>)) @@
    ("elb_status_code" :> I64(200)) @@
    ("received_bytes" :> I64(766))

NoId == <<0, 0>>

MkEvent(id, ts, data) == [id |-> id, Timestamp |-> ts, SampleRate |-> 0, Data |-> data]

\* partial assignments of values to keys: each key absent or one of vals
RECURSIVE Assignments(_, _, _)
Assignments(base, keys, vals) ==
    IF keys = <<>> THEN {base}
    ELSE LET rest == Assignments(base, Tail(keys), vals) IN
         rest \cup {Put(d, Head(keys), v) : d \in rest, v \in vals}

\* events whose latency fields take every combination, with or without an
\* "error" already there
LatencyInputs ==
    {MkEvent(NoId, 2000000, d) :
        d \in UNION {Assignments(b, timeFields, LatencyValues) :
                        b \in {BaseData, Put(BaseData, "error", Str(<<"old">>))}}}

\* events with every header, the trace_id of an ALB line; also without a
\* header, with an empty one, with a trace_id that is no string, and without
\* the load balancer's name
HeaderInputs ==
    {MkEvent(NoId, 2000000, Put(Put(BaseData, "request_path", Str(<<"/a">>)), "trace_id", v)) :
        v \in {Str(h) : h \in Headers} \cup {Str(<<>>), I64(7)}}
    \cup
    {MkEvent(NoId, 2000000, Put(Delete(BaseData, "elb"), "trace_id", Str(h))) :
        h \in {<<"Root", "=", "R1">>, <<"-">>,
               <<"Root", "=", "R1", ";", "Parent", "=", "P1">>}}

ResponseTimes == {Str(<<k>>) : k \in DOMAIN RFC3339Nanos} \cup {Str(<<"-">>), I64(5)}

\* events whose duration inputs vary, under a few headers
DurationInputs ==
    {MkEvent(NoId, 2000000, d) :
        d \in UNION {Assignments(Put(BaseData, "trace_id", Str(h)),
                                 <<"response_time">>, ResponseTimes) :
                        h \in {<<"Root", "=", "R1">>,
                               <<"Root", "=", "R1", ";", "Self", "=", "S1">>}}}
    \cup
    {MkEvent(NoId, 2000000, Put(d, "trace_id", Str(<<"Root", "=", "R1">>))) :
        d \in Assignments(BaseData, <<"response_time", "request_processing_time">>,
                          {Str(<<"1970-01-01T00:00:00.0025Z">>),
                           Str(<<"1970-01-01T00:00:00.005Z">>),
                           F64(-1), F64(0), F64(21), I64(3), NaN})}

EnrichInputs == LatencyInputs \cup HeaderInputs \cup DurationInputs

-----------------------------------------------------------------------------
(* The sink's work on one event: sendEventsToHoneycomb, lines 234-250 *)

\* requestShaper.Shape("request", &ev): splits "METHOD uri VERSION" and adds
\* request_* fields; it writes no other key
Shape(ev) ==
    IF ~IsString(ev.Data, "request") THEN ev
    ELSE LET parts == Split(ev.Data["request"].s, " ") IN
         IF Len(parts) = 3
         THEN [ev EXCEPT !.Data =
                  Put(Put(Put(ev.Data, "request_method", Str(parts[1])),
                          "request_protocol_version", Str(parts[3])),
                      "request_path", Str(parts[2]))]
         ELSE [ev EXCEPT !.Data = Put(ev.Data, "request_path", Str(parts[1]))]

\* the JSON value json.Marshal writes for v: int64 and float64 both become a
\* JSON number
JsonOf(v) ==
    IF v.t = "string" THEN [j |-> "string", n |-> 0, s |-> v.s]
    ELSE [j |-> "number", n |-> IF v.t = "int64" THEN ToFloat(v.n) ELSE v.n,
          s |-> <<>>]

\* json.Marshal(ev.Data): an error (and nil bytes) when a value is NaN
Marshal(data) ==
    IF \E k \in DOMAIN data : data[k].nan
    THEN [err |-> TRUE, obj |-> <<>>]
    ELSE [err |-> FALSE, obj |-> [k \in DOMAIN data |-> JsonOf(data[k])]]

\* opt.Environment
Environment == "dev"

\* fmt.Sprintf("%v", ev.Data["elb"])
SprintfElb(data) ==
    IF "elb" \notin DOMAIN data THEN <<"<nil>">>
    ELSE IF data["elb"].t = "string" THEN data["elb"].s
    ELSE <<"<number>">>

\* strconv.FormatInt(ev.Timestamp.UnixNano(), 10)
FormatInt(n) == [base10 |-> n]

\* the event as marshalled: after Shape and dropNegativeTimes
\* (the call of addTraceData at line 236 is commented out)
sinkEnrich(ev) == dropNegativeTimes(Shape(ev))

\* jsonPayload of lines 242-249 for the enriched event
Payload(ev) ==
    LET data == Marshal(ev.Data) IN
    [stream |-> [environment |-> Environment, service |-> "honeyaws",
                 aws_elb |-> SprintfElb(ev.Data)],
     values |-> <<[ts |-> FormatInt(ev.Timestamp),
                   line |-> [ok |-> ~data.err, obj |-> data.obj]]>>]

-----------------------------------------------------------------------------
(* The pipeline *)

Calls == 1..NumCalls

\* make(chan event.Event): capacity of hp.parsedCh and hp.sampledCh
ParsedChCapBuffered == 0 + 1
ParsedChCap == 0
SampledChCapBuffered == 0 + 1
SampledChCap == 0

NoEvent == MkEvent(NoId, 0, <<>>)
NoReq == [method |-> "", body |-> <<>>, id |-> NoId]

\* the data of the events a parser emits
PipeData == {BaseData,
             Put(Put(Delete(BaseData, "elb"), "backend_processing_time", F64(-1)),
                 "time_taken", NaN)}

\* sample rates DynSample may have in force
SampleRates == {1, 2}

\* state left by NewHoneycombPublisher, with the Publish calls still to come
PipeInit(lens, errs) ==
    /\ objLen = lens
    /\ objErr = errs
    /\ fileExists = [c \in Calls |-> TRUE]
    /\ callPc = [c \in Calls |-> "received"]
    /\ ret = [c \in Calls |-> "none"]
    /\ nextIdx = [c \in Calls |-> 1]
    /\ removeCalls = [c \in Calls |-> 0]
    /\ parsedBuf = <<>>
    /\ sampledBuf = <<>>
    /\ samplerPc = "recv"
    /\ samplerEv = NoEvent
    /\ sinkPc = "recv"
    /\ sinkEv = NoEvent
    /\ sinkReq = NoReq
    /\ crashed = FALSE
    /\ parsedSent = [c \in Calls |-> 0]
    /\ sampRecv = [c \in Calls |-> 0]
    /\ sampLast = [c \in Calls |-> 0]
    /\ sampSent = 0
    /\ sinkRecv = 0
    /\ posted = 0
    /\ started = [sampler |-> 1, sink |-> 1]
    /\ closed = FALSE

Init ==
    /\ edgeMode = FALSE
    /\ endpointOK \in BOOLEAN
    /\ \E lens \in [Calls -> 0..MaxEvents], errs \in [Calls -> BOOLEAN] :
          PipeInit(lens, errs)
    /\ trail = <<>>
    /\ ops = <<>>
    /\ panicked = FALSE

objVars == <<objLen, objErr>>
samplerHist == <<sampRecv, sampLast, sampSent>>
sinkVars == <<sinkPc, sinkEv, sinkReq, sinkRecv, posted>>

\* Publish, line 268: the call of ParseEvents begins
PublishBegin(c) ==
    /\ ~crashed
    /\ callPc[c] = "received"
    /\ callPc' = [callPc EXCEPT ![c] = "parsing"]
    /\ UNCHANGED <<edgeMode, endpointOK, objVars, fileExists, ret, nextIdx,
                   removeCalls, parsedBuf, sampledBuf, samplerPc, samplerEv,
                   samplerHist, sinkVars, crashed, parsedSent, enrichVars, lifeVars>>

ParserSendLastFirst(c) ==
    /\ ~crashed
    /\ callPc[c] = "parsing"
    /\ nextIdx[c] <= objLen[c]
    /\ samplerPc = "recv"
    /\ parsedBuf = <<>>
    /\ \E d \in PipeData :
          /\ samplerEv' = MkEvent(<<c, objLen[c] + 1 - nextIdx[c]>>, 2000000, d)
          /\ sampLast' = [sampLast EXCEPT ![c] = objLen[c] + 1 - nextIdx[c]]
    /\ samplerPc' = "decide"
    /\ sampRecv' = [sampRecv EXCEPT ![c] = @ + 1]
    /\ parsedSent' = [parsedSent EXCEPT ![c] = @ + 1]
    /\ nextIdx' = [nextIdx EXCEPT ![c] = @ + 1]
    /\ UNCHANGED <<edgeMode, endpointOK, objVars, fileExists, callPc, ret,
                   removeCalls, parsedBuf, sampledBuf, sampSent, sinkVars,
                   crashed, enrichVars, lifeVars>>

\* ParseEvents: "out <- ev" on hp.parsedCh completes for the object's next
\* event.  A send completes into a free buffer slot, or, with none free, by
\* handing the event to DynSample blocked in its receive.
ParserSend(c) ==
    /\ ~crashed
    /\ callPc[c] = "parsing"
    /\ nextIdx[c] <= objLen[c]
    /\ \E d \in PipeData :
          LET ev == MkEvent(<<c, nextIdx[c]>>, 2000000, d) IN
          IF Len(parsedBuf) < ParsedChCap
          THEN /\ parsedBuf' = Append(parsedBuf, ev)
               /\ UNCHANGED <<samplerPc, samplerEv, sampRecv, sampLast>>
          ELSE /\ samplerPc = "recv"
               /\ parsedBuf = <<>>
               /\ samplerPc' = "decide"
               /\ samplerEv' = ev
               /\ sampRecv' = [sampRecv EXCEPT ![c] = @ + 1]
               /\ sampLast' = [sampLast EXCEPT ![c] = ev.id[2]]
               /\ UNCHANGED parsedBuf
    /\ parsedSent' = [parsedSent EXCEPT ![c] = @ + 1]
    /\ nextIdx' = [nextIdx EXCEPT ![c] = @ + 1]
    /\ UNCHANGED <<edgeMode, endpointOK, objVars, fileExists, callPc, ret,
                   removeCalls, sampledBuf, sampSent, sinkVars,
                   crashed, enrichVars, lifeVars>>

\* Publish, lines 268-272: ParseEvents has returned; with an error Publish
\* returns it, otherwise it goes on to the cleanup
AlwaysCleanup(c) ==
    /\ callPc' = [callPc EXCEPT ![c] = "cleanup"]
    /\ UNCHANGED ret
AfterParse(c) ==
    IF objErr[c]
    THEN /\ callPc' = [callPc EXCEPT ![c] = "failed"]
         /\ ret' = [ret EXCEPT ![c] = "parseErr"]
    ELSE /\ callPc' = [callPc EXCEPT ![c] = "cleanup"]
         /\ UNCHANGED ret

ParseEventsReturn(c) ==
    /\ ~crashed
    /\ callPc[c] = "parsing"
    /\ nextIdx[c] > objLen[c]
    /\ AfterParse(c)
    /\ UNCHANGED <<edgeMode, endpointOK, objVars, fileExists, nextIdx,
                   removeCalls, parsedBuf, sampledBuf, samplerPc, samplerEv,
                   samplerHist, sinkVars, crashed, parsedSent, enrichVars, lifeVars>>

\* Publish, lines 276-280: os.Remove(downloadedObj.Filename) and the return.
\* removed: whether os.Remove succeeded (it cannot on a missing file).
IgnoreRemoveError(c, removed) ==
    /\ callPc' = [callPc EXCEPT ![c] = "done"]
    /\ ret' = [ret EXCEPT ![c] = "nil"]
AfterRemove(c, removed) ==
    IF removed
    THEN /\ callPc' = [callPc EXCEPT ![c] = "done"]
         /\ ret' = [ret EXCEPT ![c] = "nil"]
    ELSE /\ callPc' = [callPc EXCEPT ![c] = "failed"]
         /\ ret' = [ret EXCEPT ![c] = "cleanupErr"]

Cleanup(c) ==
    /\ ~crashed
    /\ callPc[c] = "cleanup"
    /\ \E removed \in BOOLEAN :
          /\ removed => fileExists[c]
          /\ fileExists' = [fileExists EXCEPT ![c] = @ /\ ~removed]
          /\ AfterRemove(c, removed)
    /\ removeCalls' = [removeCalls EXCEPT ![c] = @ + 1]
    /\ UNCHANGED <<edgeMode, endpointOK, objVars, nextIdx, parsedBuf,
                   sampledBuf, samplerPc, samplerEv, samplerHist, sinkVars,
                   crashed, parsedSent, enrichVars, lifeVars>>

\* DynSample's loop: receive from hp.parsedCh's buffer (a hand-off from a
\* blocked sender is ParserSend), then decide: keep the event with the rate in
\* force attached, or sample it out
SamplerLoop ==
    /\ ~crashed
    /\ IF samplerPc = "recv"
       THEN /\ parsedBuf # <<>>
            /\ samplerEv' = Head(parsedBuf)
            /\ parsedBuf' = Tail(parsedBuf)
            /\ sampRecv' = [sampRecv EXCEPT ![Head(parsedBuf).id[1]] = @ + 1]
            /\ sampLast' = [sampLast EXCEPT ![Head(parsedBuf).id[1]] = Head(parsedBuf).id[2]]
            /\ samplerPc' = "decide"
       ELSE /\ samplerPc = "decide"
            /\ \E rate \in SampleRates, keep \in BOOLEAN :
                  /\ rate = 1 => keep
                  /\ IF keep
                     THEN /\ samplerEv' = [samplerEv EXCEPT !.SampleRate = rate]
                          /\ samplerPc' = "send"
                     ELSE /\ samplerEv' = NoEvent
                          /\ samplerPc' = "recv"
            /\ UNCHANGED <<parsedBuf, sampRecv, sampLast>>
    /\ UNCHANGED <<edgeMode, endpointOK, objVars, fileExists, callPc, ret,
                   nextIdx, removeCalls, sampledBuf, sampSent, sinkVars,
                   crashed, parsedSent, enrichVars, lifeVars>>

\* DynSample: "out <- ev" on hp.sampledCh completes
SamplerSend ==
    /\ ~crashed
    /\ samplerPc = "send"
    /\ IF Len(sampledBuf) < SampledChCap
       THEN /\ sampledBuf' = Append(sampledBuf, samplerEv)
            /\ UNCHANGED <<sinkPc, sinkEv, sinkRecv>>
       ELSE /\ sinkPc = "recv"
            /\ sampledBuf = <<>>
            /\ sinkPc' = "process"
            /\ sinkEv' = samplerEv
            /\ sinkRecv' = sinkRecv + 1
            /\ UNCHANGED sampledBuf
    /\ sampSent' = sampSent + 1
    /\ samplerPc' = "recv"
    /\ samplerEv' = NoEvent
    /\ UNCHANGED <<edgeMode, endpointOK, objVars, fileExists, callPc, ret,
                   nextIdx, removeCalls, parsedBuf, sampRecv, sampLast, sinkReq,
                   posted, crashed, parsedSent, enrichVars, lifeVars>>

\* sendEventsToHoneycomb's loop up to client.Do: receive from hp.sampledCh's
\* buffer (a hand-off from the blocked sampler is SamplerSend), then lines
\* 234-258.  http.NewRequest returns a nil request with its error; the error is
\* logged and line 255 dereferences the nil request: a panic no one recovers.
SinkLoop ==
    /\ ~crashed
    /\ IF sinkPc = "recv"
       THEN /\ sampledBuf # <<>>
            /\ sinkEv' = Head(sampledBuf)
            /\ sampledBuf' = Tail(sampledBuf)
            /\ sinkRecv' = sinkRecv + 1
            /\ sinkPc' = "process"
            /\ UNCHANGED <<sinkReq, posted, crashed>>
       ELSE /\ sinkPc = "process"
            /\ LET ev == sinkEnrich(sinkEv)
               IN  /\ sinkEv' = ev
                   /\ IF endpointOK
                      THEN /\ sinkReq' = [method |-> "POST", body |-> Payload(ev),
                                          id |-> ev.id]
                           /\ posted' = posted + 1
                           /\ sinkPc' = "post"
                           /\ UNCHANGED crashed
                      ELSE /\ crashed' = TRUE
                           /\ UNCHANGED <<sinkReq, posted, sinkPc>>
            /\ UNCHANGED <<sampledBuf, sinkRecv>>
    /\ UNCHANGED <<edgeMode, endpointOK, objVars, fileExists, callPc, ret,
                   nextIdx, removeCalls, parsedBuf, samplerPc, samplerEv,
                   samplerHist, parsedSent, enrichVars, lifeVars>>

\* client.Do returns, lines 258-262, with a response or with an error; the
\* response is discarded, the error is logged, and the loop goes on either way
SinkDoReturn ==
    /\ ~crashed
    /\ sinkPc = "post"
    /\ sinkPc' = "recv"
    /\ sinkEv' = NoEvent
    /\ sinkReq' = NoReq
    /\ UNCHANGED <<edgeMode, endpointOK, objVars, fileExists, callPc, ret,
                   nextIdx, removeCalls, parsedBuf, sampledBuf, samplerPc,
                   samplerEv, samplerHist, sinkRecv, posted, crashed,
                   parsedSent, enrichVars, lifeVars>>

\* Close, lines 283-286: libhoney.Close() and nothing else.  The sink posts with
\* its own http.Client, so libhoney has nothing of this pipeline to flush; the
\* channels are not closed and nothing waits for the two goroutines.
Close ==
    /\ ~crashed
    /\ ~closed
    /\ closed' = TRUE
    /\ UNCHANGED <<edgeMode, endpointOK, objVars, fileExists, callPc, ret,
                   nextIdx, removeCalls, parsedBuf, sampledBuf, samplerPc,
                   samplerEv, samplerHist, sinkVars, crashed, parsedSent,
                   enrichVars, started>>

Next ==
    \/ \E c \in Calls : PublishBegin(c)
    \/ \E c \in Calls : ParserSend(c)
    \/ \E c \in Calls : ParseEventsReturn(c)
    \/ \E c \in Calls : Cleanup(c)
    \/ SamplerLoop
    \/ SamplerSend
    \/ SinkLoop
    \/ SinkDoReturn
    \/ Close

Spec == Init /\ [][Next]_vars

\* The goroutines under a fair scheduler, with calls that return: a step that
\* stays possible is eventually taken.  Every Publish call runs in a goroutine
\* of its caller, DynSample and sendEventsToHoneycomb in the goroutines of
\* lines 110-111; os.Remove and client.Do return.  Close is the embedding
\* program's choice and is under no fairness.
Fairness ==
    /\ \A c \in Calls : WF_vars(PublishBegin(c))
    /\ \A c \in Calls : WF_vars(ParserSend(c))
    /\ \A c \in Calls : WF_vars(ParseEventsReturn(c))
    /\ \A c \in Calls : WF_vars(Cleanup(c))
    /\ WF_vars(SamplerLoop)
    /\ WF_vars(SamplerSend)
    /\ WF_vars(SinkLoop)
    /\ WF_vars(SinkDoReturn)

SpecFair == Init /\ [][Next]_vars /\ Fairness

-----------------------------------------------------------------------------
(* The enrichers applied to one event: the input is drawn from EnrichInputs,   *)
(* each call works in place on the event the previous call left.               *)

Last(seq) == seq[Len(seq)]

InitEnrich ==
    /\ edgeMode \in BOOLEAN
    /\ endpointOK = TRUE
    /\ PipeInit([c \in Calls |-> 0], [c \in Calls |-> FALSE])
    /\ \E e \in EnrichInputs : trail = <<e>>
    /\ ops = <<>>
    /\ panicked = FALSE

\* the enrichers run one after the other on an event and then again on the
\* result
PairTwice == <<"dropNegativeTimes", "addTraceData",
               "dropNegativeTimes", "addTraceData">>

IsPrefix(s, t) == Len(s) <= Len(t) /\ SubSeq(t, 1, Len(s)) = s

\* the call sequences explored: any of up to MaxCalls calls, and PairTwice
MayCall(op) == Len(ops) < MaxCalls \/ IsPrefix(Append(ops, op), PairTwice)

CallDropNegativeTimes ==
    /\ ~panicked
    /\ MayCall("dropNegativeTimes")
    /\ "sinkEnrich" \notin Range(ops)
    /\ trail' = Append(trail, dropNegativeTimes(Last(trail)))
    /\ ops' = Append(ops, "dropNegativeTimes")
    /\ UNCHANGED <<edgeMode, pipeVars, panicked>>

CallAddTraceData ==
    /\ ~panicked
    /\ MayCall("addTraceData")
    /\ "sinkEnrich" \notin Range(ops)
    /\ LET r == addTraceData(Last(trail), edgeMode) IN
          /\ trail' = Append(trail, r.ev)
          /\ panicked' = r.panicked
    /\ ops' = Append(ops, "addTraceData")
    /\ UNCHANGED <<edgeMode, pipeVars>>

\* the sink's enrichment of the event it received (lines 234-236), which it
\* then serializes
CallSinkEnrich ==
    /\ ~panicked
    /\ ops = <<>>
    /\ trail' = Append(trail, sinkEnrich(Last(trail)))
    /\ ops' = Append(ops, "sinkEnrich")
    /\ UNCHANGED <<edgeMode, pipeVars, panicked>>

NextEnrich ==
    \/ CallDropNegativeTimes
    \/ CallAddTraceData
    \/ CallSinkEnrich

SpecEnrich == InitEnrich /\ [][NextEnrich]_vars

-----------------------------------------------------------------------------
(* Claims about the pipeline, checked under Spec *)

Returned(c) == ret[c] # "none"

\* C1: the outcome of Publish and its cleanup.  A call whose ParseEvents failed
\* returns that error, has called os.Remove zero times and leaves the file in
\* place; a call whose ParseEvents succeeded calls os.Remove exactly once
\* before it returns, returns nil only with the file gone and an error when
\* the removal failed; a call ends in exactly one of Done (nil) and Failed (an
\* error).
C1_PublishOutcome ==
    \A c \in Calls :
        /\ removeCalls[c] <= 1
        /\ Returned(c) <=> callPc[c] \in {"done", "failed"}
        /\ callPc[c] = "done" <=> ret[c] = "nil"
        /\ callPc[c] = "failed" <=> ret[c] \in {"parseErr", "cleanupErr"}
        /\ (Returned(c) /\ objErr[c]) =>
              ret[c] = "parseErr" /\ removeCalls[c] = 0 /\ fileExists[c]
        /\ (Returned(c) /\ ~objErr[c]) =>
              /\ removeCalls[c] = 1
              /\ ret[c] = (IF fileExists[c] THEN "cleanupErr" ELSE "nil")
        /\ ret[c] = "nil" => ~fileExists[c]

\* C1 witness: one call has returned nil after parsing events, another has
\* returned its parse error, and no file was removed for the latter.
C1_Witness ==
    \E c, d \in Calls :
        /\ ret[c] = "nil" /\ objLen[c] > 0 /\ ~fileExists[c]
        /\ ret[d] = "parseErr" /\ fileExists[d]

\* events of call c in a channel buffer
Buffered(buf, c) == Cardinality({k \in 1..Len(buf) : buf[k].id[1] = c})

\* C2: when Publish has returned, the parser has sent all of the object's
\* events, DynSample has received every one of them, and none waits in the
\* parse->sample queue.
C2_ReturnedMeansHandedToSampler ==
    \A c \in Calls :
        Returned(c) =>
            /\ nextIdx[c] = objLen[c] + 1
            /\ parsedSent[c] = objLen[c]
            /\ sampRecv[c] = objLen[c]
            /\ Buffered(parsedBuf, c) = 0

\* C2 witness: Publish has returned nil while an event of its object, kept by
\* the sampler, has not been handed to client.Do yet.
C2_ReturnedBeforeDelivery ==
    \E c \in Calls :
        /\ ret[c] = "nil"
        /\ objLen[c] > 0
        /\ sampRecv[c] = objLen[c]
        /\ samplerPc = "send"
        /\ samplerEv.id[1] = c
        /\ posted <= sampSent

\* C3 (state part): both queues are empty hand-offs; per object, the sampler
\* has received exactly the events the parser handed off, one after the other
\* in the parser's order, and the sink has received exactly the events the
\* sampler forwarded; a returned Publish call has no event left to send.
C3_NoBufferNoLoss ==
    /\ parsedBuf = <<>>
    /\ sampledBuf = <<>>
    /\ sinkRecv = sampSent
    /\ \A c \in Calls :
          /\ sampRecv[c] = parsedSent[c]
          /\ sampLast[c] = sampRecv[c]
          /\ Returned(c) => nextIdx[c] > objLen[c]

\* C3 (step part): across a step that leaves the sink inside its HTTP call the
\* sampler completes no hand-off, across a step that leaves the sampler
\* blocked in its send no parser completes a hand-off, and a step hands off at
\* most one event, received once.
C3_StallBlocks ==
    /\ (sinkPc = "post" /\ sinkPc' = "post") => sampSent' = sampSent
    /\ (samplerPc = "send" /\ samplerPc' = "send") => parsedSent' = parsedSent
    /\ sinkRecv' \in {sinkRecv, sinkRecv + 1}
    /\ \A c \in Calls :
          /\ sampRecv'[c] \in {sampRecv[c], sampRecv[c] + 1}
          /\ sampLast'[c] \in {sampLast[c], sampLast[c] + 1}

\* C3: backpressure without loss.
C3_Backpressure == [](C3_NoBufferNoLoss) /\ [][C3_StallBlocks]_vars

\* C3 witness: the sink is inside an HTTP call, the sampler holds a kept event
\* it cannot hand off, and a parser has a further event it cannot hand off.
C3_Witness ==
    /\ sinkPc = "post"
    /\ samplerPc = "send"
    /\ \E c \in Calls : callPc[c] = "parsing" /\ nextIdx[c] <= objLen[c]

\* C4: no sink-level failure (request construction, POST, auth, JSON
\* serialization) ever terminates the sink stage or the pipeline: the sink
\* keeps running after every event it has processed.
C4_SinkErrorsNeverStopPipeline == ~crashed

\* C6: every payload handed to the HTTP POST contains the sample rate that
\* DynSample attached to the event: the rate can be read off the payload, so
\* the same event kept at another rate would have another payload.
C6_PayloadCarriesSampleRate ==
    (sinkPc = "post" /\ sinkReq.body.values[1].line.ok) =>
        /\ sinkEv.SampleRate \in SampleRates
        /\ \A r \in SampleRates \ {sinkEv.SampleRate} :
              Payload([sinkEv EXCEPT !.SampleRate = r]) # sinkReq.body

\* C13 (state part): per object, the index of the event the sampler received
\* last equals the number of that object's events it has received, so it has
\* received the object's events 1, 2, ... in the parser's order, none twice
\* and none skipped.
C13_ReceivedInParseOrder ==
    \A c \in Calls : sampLast[c] = sampRecv[c] /\ sampRecv[c] <= objLen[c]

\* C13 (step part): a step in which the sampler receives an event of object c
\* receives the event that follows the ones of c it already has.
C13_NextInParseOrder ==
    \A c \in Calls :
        sampRecv'[c] # sampRecv[c] =>
            /\ samplerPc' = "decide"
            /\ samplerEv'.id = <<c, sampRecv[c] + 1>>

\* C13: the sampler receives each object's events in the order the parser
\* emitted them, while the events of concurrently published objects interleave.
C13_PerObjectOrder == [](C13_ReceivedInParseOrder) /\ [][C13_NextInParseOrder]_vars

\* C13 witness: the sampler has just received the second event of one object
\* after the first event of another object whose second event is still to
\* come: the two objects' events interleave.
C13_Interleaved ==
    \E c, d \in Calls :
        /\ c # d
        /\ samplerPc = "decide"
        /\ samplerEv.id = <<c, 2>>
        /\ sampRecv[c] = 2
        /\ sampRecv[d] = 1
        /\ objLen[d] = 2
        /\ callPc[d] = "parsing"

\* an event is inside the pipeline: in a queue, in the sampler's hands, or in
\* the sink's hands before its POST has returned
InFlight ==
    \/ parsedBuf # <<>>
    \/ sampledBuf # <<>>
    \/ samplerPc \in {"decide", "send"}
    \/ sinkPc \in {"process", "post"}

\* C14: each stage has been started exactly once, whatever Publish calls have
\* run; and once Close() has returned, the sampler and the sink have
\* terminated and no event is left inside the pipeline.
C14_StageLifecycle ==
    /\ started.sampler = 1
    /\ started.sink = 1
    /\ closed =>
          /\ samplerPc = "stopped"
          /\ sinkPc = "stopped"
          /\ ~InFlight

\* C16: every event the sink has received has been handed to client.Do exactly
\* once, or is the one being processed and will be (the sink has not died with
\* it); and the request handed over is a POST whose body has one stream,
\* labelled with the environment, service "honeyaws" and the event's elb, and
\* one value: the event's timestamp in nanoseconds and the JSON encoding of
\* the event's data after the sentinel cleanup.
C16_OnePostPerEvent ==
    /\ sinkRecv = posted + (IF sinkPc = "process" THEN 1 ELSE 0)
    /\ sinkPc = "process" => ~crashed
    /\ sinkPc = "post" =>
          LET body == sinkReq.body
              cleaned == dropNegativeTimes(Shape(sinkEv)).Data
          IN  /\ sinkReq.method = "POST"
              /\ body.stream.environment = Environment
              /\ body.stream.service = "honeyaws"
              /\ IsString(sinkEv.Data, "elb") =>
                    body.stream.aws_elb = sinkEv.Data["elb"].s
              /\ Len(body.values) = 1
              /\ body.values[1].ts = FormatInt(sinkEv.Timestamp)
              /\ body.values[1].line.ok
              /\ DOMAIN body.values[1].line.obj = DOMAIN cleaned
              /\ \A k \in DOMAIN cleaned :
                    body.values[1].line.obj[k] = JsonOf(cleaned[k])

\* C18: under fair scheduling, with HTTP and file-system calls that return,
\* every Publish call that has begun eventually returns, every event the
\* sampler keeps is eventually forwarded, and every event the sink has received
\* is eventually handed to client.Do.
C18_PipelineProgress ==
    /\ \A c \in Calls : (callPc[c] = "parsing") ~> Returned(c)
    /\ (samplerPc = "send") ~> (samplerPc = "recv")
    /\ (sinkPc = "process") ~> (sinkPc = "post")

-----------------------------------------------------------------------------
(* Claims about the enrichers, checked under SpecEnrich *)

\* trail only grows, so a property of every call is checked on the last one
Steps == IF ops = <<>> THEN {} ELSE {Len(ops)}

\* the i-th call ended in a panic
PanickedAt(i) == panicked /\ i = Len(ops)

\* key k has the same presence and value in maps b and a
Same(b, a, k) ==
    /\ k \in DOMAIN b <=> k \in DOMAIN a
    /\ k \in DOMAIN b => a[k] = b[k]

TimeFieldSet == Range(timeFields)

\* a numeric value below zero
NegativeNumber(v) == v.t \in {"int64", "float64"} /\ ~v.nan /\ v.n < 0

NoNegativeTime(data) ==
    \A f \in TimeFieldSet \cap DOMAIN data : ~NegativeNumber(data[f])

\* C5: dropNegativeTimes deletes each latency field that holds a negative
\* number and then "error" is set; every other latency field and every other
\* key except "error" keeps its presence and value; after it no latency field
\* is negative, in the event and in the data the sink serializes.
C5_SentinelCleanup ==
    \A i \in Steps :
        LET b == trail[i].Data
            a == trail[i + 1].Data
        IN  /\ ops[i] = "dropNegativeTimes" =>
                  /\ \A f \in TimeFieldSet :
                        IF f \in DOMAIN b /\ NegativeNumber(b[f])
                        THEN f \notin DOMAIN a /\ "error" \in DOMAIN a
                        ELSE Same(b, a, f)
                  /\ \A k \in (DOMAIN b \cup DOMAIN a) \ (TimeFieldSet \cup {"error"}) :
                        Same(b, a, k)
                  /\ ("error" \in DOMAIN a /\ ~Same(b, a, "error")) =>
                        \E f \in TimeFieldSet : f \in DOMAIN b /\ NegativeNumber(b[f])
                  /\ trail[i + 1].Timestamp = trail[i].Timestamp
            /\ (\E j \in 1..i : ops[j] \in {"dropNegativeTimes", "sinkEnrich"}) =>
                  NoNegativeTime(a)
            /\ ops[i] = "sinkEnrich" =>
                  LET line == Payload(trail[i + 1]).values[1].line IN
                  \A f \in TimeFieldSet \cap DOMAIN line.obj :
                      ~(line.obj[f].j = "number" /\ line.obj[f].n < 0)

\* C5 witness: dropNegativeTimes has run on an event with a negative int64, a
\* negative float64, a non-negative and an absent latency field.
C5_Witness ==
    /\ ops = <<"dropNegativeTimes">>
    /\ LET b == trail[1].Data
           a == trail[2].Data
       IN  /\ "response_processing_time" \in DOMAIN b
           /\ b["response_processing_time"] = I64(-1)
           /\ "backend_processing_time" \in DOMAIN b
           /\ b["backend_processing_time"] = F64(-1)
           /\ "request_processing_time" \in DOMAIN b
           /\ b["request_processing_time"] = F64(21)
           /\ "time_taken" \notin DOMAIN b
           /\ DOMAIN a \cap TimeFieldSet = {"request_processing_time"}
           /\ "error" \in DOMAIN a

\* C7: no call of an enricher on any event ends in a runtime panic.
C7_NoPanic == ~panicked

\* the header of the event a call of addTraceData starts from
HasHeader(i) == ops[i] = "addTraceData" /\ IsString(trail[i].Data, "trace_id")
HeaderOf(i) == trail[i].Data["trace_id"].s

\* the well-formed fields of header h, in order, each as <<key, value>>
KeyValues(h) ==
    LET fs == Split(h, ";")
        kvs == [n \in 1..Len(fs) |-> Split(fs[n], "=")]
    IN  [n \in 1..Len(fs) |->
            IF Len(kvs[n]) = 2 THEN <<Concat(kvs[n][1]), kvs[n][2]>>
            ELSE <<"", <<"malformed">>, "malformed">>]
IsField(kv) == Len(kv) = 2
HasKey(h, key) == \E kv \in Range(KeyValues(h)) : IsField(kv) /\ kv[1] = key

\* the value of the last well-formed field of h whose key is in keys
LastValue(h, keys) ==
    LET kvs == KeyValues(h)
        idx == {n \in 1..Len(kvs) : IsField(kvs[n]) /\ kvs[n][1] \in keys}
        last == CHOOSE n \in idx : \A m \in idx : m <= n
    IN  kvs[last][2]

\* C8: in edge mode, a header with a Parent key leaves the output event
\* without a trace.parent_id field, whatever else the header holds.
C8_EdgeModeDropsParent ==
    \A i \in Steps :
        (HasHeader(i) /\ edgeMode /\ HasKey(HeaderOf(i), "Parent") /\ ~PanickedAt(i))
            => "trace.parent_id" \notin DOMAIN trail[i + 1].Data

\* C9 as stated: for a header without a Self key, the output's span id equals
\* its trace id, in edge mode and not, with or without a Parent key.
C9_RootSpanSelfAssignment ==
    \A i \in Steps :
        (HasHeader(i) /\ ~HasKey(HeaderOf(i), "Self") /\ ~PanickedAt(i)) =>
            LET a == trail[i + 1].Data IN
            /\ "trace.span_id" \in DOMAIN a
            /\ "trace.trace_id" \in DOMAIN a
            /\ a["trace.span_id"] = a["trace.trace_id"]

\* C9 amended: for a header with a Root key, without a Self key and, unless
\* edge mode is on, without a Parent key, the call completes and the output's
\* span id equals its trace id, the value of the last field keyed Root (or
\* trace.trace_id).  Outside edge mode a Parent key makes the event a non-root
\* span: without a Self key its span id is left as the loop left it.
C9_RootSpanAmended ==
    \A i \in Steps :
        (HasHeader(i) /\ ~HasKey(HeaderOf(i), "Self")) =>
            LET h == HeaderOf(i)
                b == trail[i].Data
                a == trail[i + 1].Data
            IN  /\ (HasKey(h, "Root") /\ (edgeMode \/ ~HasKey(h, "Parent"))) =>
                      /\ ~PanickedAt(i)
                      /\ "trace.span_id" \in DOMAIN a
                      /\ "trace.trace_id" \in DOMAIN a
                      /\ a["trace.span_id"] = a["trace.trace_id"]
                      /\ a["trace.trace_id"] = Str(LastValue(h, {"Root", "trace.trace_id"}))
                /\ (~edgeMode /\ HasKey(h, "Parent")) =>
                      /\ ~PanickedAt(i)
                      /\ IF HasKey(h, "trace.span_id")
                         THEN a["trace.span_id"] = Str(LastValue(h, {"trace.span_id"}))
                         ELSE Same(b, a, "trace.span_id")

\* C9 witness: in edge mode, Root=R1;Parent=P1 came out with span id = trace
\* id = R1.
C9_Witness ==
    /\ edgeMode
    /\ ops = <<"addTraceData">>
    /\ IsString(trail[1].Data, "trace_id")
    /\ trail[1].Data["trace_id"] = Str(<<"Root", "=", "R1", ";", "Parent", "=", "P1">>)
    /\ ~panicked
    /\ "trace.parent_id" \notin DOMAIN trail[2].Data
    /\ trail[2].Data["trace.span_id"] = Str(<<"R1">>)
    /\ trail[2].Data["trace.trace_id"] = Str(<<"R1">>)

\* C10 as stated: for a header with a field Root=R and a field Self=S, the
\* output has trace id R and span id S.
C10_RootAndSelf ==
    \A i \in Steps :
        HasHeader(i) =>
            LET a == trail[i + 1].Data IN
            \A root, self \in Range(KeyValues(HeaderOf(i))) :
                (/\ IsField(root) /\ root[1] = "Root"
                 /\ IsField(self) /\ self[1] = "Self") =>
                    /\ ~PanickedAt(i)
                    /\ "trace.trace_id" \in DOMAIN a
                    /\ a["trace.trace_id"] = Str(root[2])
                    /\ "trace.span_id" \in DOMAIN a
                    /\ a["trace.span_id"] = Str(self[2])

\* C10 amended: for a header with a Root key and a Self key the call
\* completes, the trace id is the value of the last field keyed Root (or
\* trace.trace_id), the span id is the value of the last field keyed Self (or
\* trace.span_id), and the span id is not overwritten with the trace id; so a
\* header whose only such fields are Root=R and Self=S gives trace id R and
\* span id S.
C10_RootAndSelfAmended ==
    \A i \in Steps :
        (HasHeader(i) /\ HasKey(HeaderOf(i), "Root") /\ HasKey(HeaderOf(i), "Self")) =>
            LET h == HeaderOf(i)
                a == trail[i + 1].Data
            IN  /\ ~PanickedAt(i)
                /\ "trace.trace_id" \in DOMAIN a
                /\ a["trace.trace_id"] = Str(LastValue(h, {"Root", "trace.trace_id"}))
                /\ "trace.span_id" \in DOMAIN a
                /\ a["trace.span_id"] = Str(LastValue(h, {"Self", "trace.span_id"}))

\* C10 witness: Root=R1;Self=S1 came out with trace id R1 and span id S1.
C10_Witness ==
    /\ ops = <<"addTraceData">>
    /\ IsString(trail[1].Data, "trace_id")
    /\ trail[1].Data["trace_id"] = Str(<<"Root", "=", "R1", ";", "Self", "=", "S1">>)
    /\ ~panicked
    /\ trail[2].Data["trace.trace_id"] = Str(<<"R1">>)
    /\ trail[2].Data["trace.span_id"] = Str(<<"S1">>)

\* a float64 number above zero
PositiveFloat(data, k) ==
    k \in DOMAIN data /\ data[k].t = "float64" /\ ~data[k].nan /\ data[k].n > 0

\* C11: after addTraceData, when response_time parses as a timestamp strictly
\* after the event's, duration_ms is that difference in milliseconds, also
\* when the difference is below one millisecond; otherwise duration_ms is
\* request_processing_time when that is positive; and a duration_ms that the
\* call attached is above zero.
C11_DurationDerivation ==
    \A i \in Steps :
        (HasHeader(i) /\ ~PanickedAt(i)) =>
            LET b == trail[i].Data
                a == trail[i + 1].Data
                endTime == IF IsString(b, "response_time")
                           THEN timeParse(b["response_time"].s)
                           ELSE [ok |-> FALSE, ns |-> 0]
                diff == endTime.ns - trail[i].Timestamp
            IN  /\ (endTime.ok /\ diff > 0) =>
                      /\ "duration_ms" \in DOMAIN a
                      /\ a["duration_ms"] = F64(diff \div 1000)
                /\ (~(endTime.ok /\ diff > 0)
                    /\ PositiveFloat(b, "request_processing_time")) =>
                      /\ "duration_ms" \in DOMAIN a
                      /\ a["duration_ms"] = b["request_processing_time"]
                /\ ("duration_ms" \in DOMAIN a /\ "duration_ms" \notin DOMAIN b) =>
                      PositiveFloat(a, "duration_ms")

Enrichers == {"dropNegativeTimes", "addTraceData"}

\* C12: an enricher applied to its own output changes nothing and does not
\* panic: dropNegativeTimes after dropNegativeTimes, addTraceData after
\* addTraceData, and the pair dropNegativeTimes, addTraceData after the pair,
\* in edge mode and not.
C12_EnricherIdempotence ==
    \A i \in Steps :
        /\ (i >= 2 /\ ops[i] \in Enrichers /\ ops[i - 1] = ops[i]) =>
              /\ ~PanickedAt(i)
              /\ trail[i + 1] = trail[i]
        /\ (i = Len(PairTwice) /\ ops = PairTwice) =>
              /\ ~PanickedAt(i)
              /\ trail[i] = trail[i - 1]
              /\ trail[i + 1] = trail[i - 1]

\* C12 witness: the pair ran twice on an event with a negative latency field
\* and a trace header; the first run changed the event in both calls, the
\* second run left it as it was.
C12_Witness ==
    /\ ops = PairTwice
    /\ ~panicked
    /\ \E f \in TimeFieldSet \cap DOMAIN trail[1].Data : NegativeNumber(trail[1].Data[f])
    /\ IsString(trail[1].Data, "trace_id")
    /\ trail[2] # trail[1]
    /\ trail[3] # trail[2]
    /\ trail[5] = trail[3]

\* positions in timeFields of the latency fields that hold a negative number
NegativeAt(data) ==
    {j \in 1..Len(timeFields) :
        timeFields[j] \in DOMAIN data /\ NegativeNumber(data[timeFields[j]])}

\* C15: when dropNegativeTimes runs on an event with two or more negative
\* latency fields, all of them are deleted and "error" holds the one message
\* that names the negative field coming last in timeFields, whatever "error"
\* held before.
C15_SingleErrorAnnotation ==
    \A i \in Steps :
        LET b == trail[i].Data
            a == trail[i + 1].Data
            neg == NegativeAt(b)
        IN  (ops[i] = "dropNegativeTimes" /\ Cardinality(neg) >= 2) =>
                LET last == CHOOSE j \in neg : \A k \in neg : k <= j IN
                /\ \A j \in neg : timeFields[j] \notin DOMAIN a
                /\ "error" \in DOMAIN a
                /\ a["error"] = Str(<<timeFields[last], ErrSuffix>>)

\* C15 witness: an event with an "error" of its own and with
\* response_processing_time and time_taken negative came out without both and
\* with the message about time_taken.
C15_Witness ==
    /\ ops = <<"dropNegativeTimes">>
    /\ "error" \in DOMAIN trail[1].Data
    /\ trail[1].Data["error"] = Str(<<"old">>)
    /\ NegativeAt(trail[1].Data) = {1, 4}
    /\ DOMAIN trail[2].Data \cap {"response_processing_time", "time_taken"} = {}
    /\ trail[2].Data["error"] = Str(<<"time_taken", ErrSuffix>>)

\* C17: a call of addTraceData that returns leaves every field the event had,
\* other than trace_id, with the value it had, whatever keys the header
\* names; it removes trace_id and stores the raw header under
\* request.headers.x-amzn-trace-id; and on an event whose trace_id is absent
\* or not a string it changes nothing.
C17_TraceFrame ==
    \A i \in Steps :
        (ops[i] = "addTraceData" /\ ~PanickedAt(i)) =>
            LET b == trail[i].Data
                a == trail[i + 1].Data
            IN  IF IsString(b, "trace_id")
                THEN /\ \A k \in DOMAIN b \ {"trace_id"} : Same(b, a, k)
                     /\ "trace_id" \notin DOMAIN a
                     /\ "request.headers.x-amzn-trace-id" \in DOMAIN a
                     /\ a["request.headers.x-amzn-trace-id"] = b["trace_id"]
                     /\ trail[i + 1].Timestamp = trail[i].Timestamp
                ELSE trail[i + 1] = trail[i]

====
